---------------------------- MODULE Spec2Model ----------------------------
(***************************************************************************)
(* Real-time coordination gateway of SkateHubba                            *)
(* (src/server/socket/rooms.ts): the room registry, the per-connection     *)
(* session data, and the connection rate limiter.                          *)
(*                                                                         *)
(* Strings are modelled as sequences of tokens.  A token is either the     *)
(* single character ":" or a chunk of characters that holds no ":"         *)
(* ("battle", "a", ...), so that String.split(":") and Array.join(":")     *)
(* act on the model exactly as they act on the JavaScript strings.         *)
(***************************************************************************)
EXTENDS Integers, Sequences, FiniteSets, TLC

VARIABLES
    rooms,        \* rooms.ts:19   Map roomId -> RoomInfo {type, id, members}
    sockData,     \* socket.data   session -> [odv, rooms] (SocketData)
    sioRooms,     \* socket.io     session -> channels the socket is subscribed to
    pending,      \* calls suspended at an await (joinRoom:101, leaveRoom:129)
    last,         \* the call that completed last: its arguments, result, emits
    connectionAttempts, \* rooms.ts:253 Map ip -> {count, resetAt}
    now,          \* Date.now()
    window,       \* ghost: per ip, the window the attempts are counted against
    lastAdmit,    \* the checkRateLimit call that completed last
    keyIn,        \* input of the key round trip (a type/id pair or a raw key)
    keyOut,       \* result of parseRoomId on that input
    conns,        \* connection attempts inside socketAuthMiddleware
    users,        \* the user store behind AuthService.findUserByFirebaseUid
    closed,       \* sessions whose disconnect clean-up has completed
    shadow        \* a twin of the two maps on which no sweep ever runs

vars == <<rooms, sockData, sioRooms, pending, last,
          connectionAttempts, now, window, lastAdmit, keyIn, keyOut,
          conns, users, closed, shadow>>

roomVars == <<rooms, sockData, sioRooms, pending, last>>
rateVars == <<connectionAttempts, now, window, lastAdmit>>
keyVars  == <<keyIn, keyOut>>
sideVars == <<conns, users, closed, shadow>>

---------------------------------------------------------------------------
(* Bounds of the model                                                     *)

MaxSessions == 3     \* connected sessions that issue calls
MaxSubjects == 2     \* distinct subjects behind them (session 3 shares subject 1)
MaxRooms    == 2     \* rooms held in the registry at once
MaxIdLen    == 3     \* tokens of a room id in the key round trip
MaxKeyLen   == 4     \* tokens of a raw key handed to parseRoomId
MaxPending  == 2     \* calls suspended at once
MaxAttempts == 12    \* checkRateLimit calls of one source counted in one window
MaxJitter   == 1     \* one-millisecond clock steps after a coarse step
MaxCoarse   == 4     \* coarse clock steps (half a window each)

---------------------------------------------------------------------------
(* Strings                                                                 *)

COLON == ":"

\* The four members of the RoomType union, as one-chunk strings.
Battle == <<"battle">>
Game   == <<"game">>
Spot   == <<"spot">>
Global == <<"global">>
RoomType == {Battle, Game, Spot, Global}

\* String.prototype.split(":"): the pieces between the separators; the
\* empty string splits to one empty piece.
RECURSIVE Split(_)
Split(s) ==
    IF \A i \in 1..Len(s) : s[i] # COLON
    THEN <<s>>
    ELSE LET p == CHOOSE i \in 1..Len(s) :
                     s[i] = COLON /\ \A j \in 1..(i - 1) : s[j] # COLON
         IN  <<SubSeq(s, 1, p - 1)>> \o Split(SubSeq(s, p + 1, Len(s)))

\* Array.prototype.join(":"); the empty array joins to the empty string.
RECURSIVE Join(_)
Join(parts) ==
    IF Len(parts) = 0 THEN <<>>
    ELSE IF Len(parts) = 1 THEN parts[1]
    ELSE parts[1] \o <<COLON>> \o Join(Tail(parts))

\* rooms.ts:32  `${type}:${id}`
getRoomId(type, id) == type \o <<COLON>> \o id

Null == [null |-> TRUE]

\* Variant that keeps only the piece after the first ":" as the id.
BadParseRoomId(roomId) ==
    LET parts == Split(roomId)
        type  == Head(parts)
        id    == IF Len(parts) > 1 THEN parts[2] ELSE <<>>
    IN  IF type = <<>> \/ id = <<>>
        THEN Null
        ELSE [null |-> FALSE, type |-> type, id |-> id]

\* rooms.ts:39  const [type, ...rest] = roomId.split(":"); id = rest.join(":");
\*              if (!type || !id) return null;
parseRoomId(roomId) ==
    LET parts == Split(roomId)
        type  == Head(parts)
        id    == Join(Tail(parts))
    IN  IF type = <<>> \/ id = <<>>
        THEN Null
        ELSE [null |-> FALSE, type |-> type, id |-> id]


---------------------------------------------------------------------------
(* Room registry                                                           *)

\* rooms.ts:22  Record<RoomType, number>; Infinity is the limit no size reaches.
ROOM_LIMITS ==
    (Battle :> [finite |-> TRUE,  n |-> 2]) @@
    (Game   :> [finite |-> TRUE,  n |-> 8]) @@
    (Spot   :> [finite |-> TRUE,  n |-> 100]) @@
    (Global :> [finite |-> FALSE, n |-> 0])

\* Variant of the capacity check with > for >=.
BadRoomFull(room, type) ==
    /\ type \in DOMAIN ROOM_LIMITS
    /\ ROOM_LIMITS[type].finite /\ Cardinality(room.members) > ROOM_LIMITS[type].n

\* rooms.ts:94  room.members.size >= ROOM_LIMITS[type]
\* For a type outside the table ROOM_LIMITS[type] is undefined and the
\* comparison with undefined is false.
RoomFull(room, type) ==
    /\ type \in DOMAIN ROOM_LIMITS
    /\ ROOM_LIMITS[type].finite /\ Cardinality(room.members) >= ROOM_LIMITS[type].n

Sessions == 1..MaxSessions

\* The subject (user id) a session was authenticated as: socket.data.odv.
\* Sessions beyond MaxSubjects are further connections of the first subjects.
SubjectId(n) == ToString(n)
OdvOf(s) == SubjectId(((s - 1) % MaxSubjects) + 1)

\* The callers are one session per subject.
Callers == 1..MaxSubjects

\* The rooms the sessions ask for: a bounded room, the unbounded one, and a
\* room with the empty id, which joinRoom takes like any other.
Targets == {<<Battle, <<"a">> >>, <<Global, <<"a">> >>, <<Battle, <<>> >>}

\* One room of every type, for the runs that start with a crowd.
CrowdTargets == RoomType \X {<<"a">>}

\* rooms.ts:49  the registry after getOrCreateRoom(type, id)
GetOrCreateRoom(rs, type, id) ==
    LET roomId == getRoomId(type, id)
    IN  IF roomId \in DOMAIN rs
        THEN rs
        ELSE rs @@ (roomId :> [type |-> type, id |-> id, members |-> {}])

\* Variant of the sweep that also deletes rooms with a single member.
BadSweep(rs) ==
    LET keep == {k \in DOMAIN rs : Cardinality(rs[k].members) > 1}
    IN  [k \in keep |-> rs[k]]

\* rooms.ts:69-76  the registry after cleanupEmptyRooms()
Sweep(rs) ==
    LET keep == {k \in DOMAIN rs : rs[k].members # {}}
    IN  [k \in keep |-> rs[k]]

\* The three stores a room call reads and writes, as one value.
Stores == [rooms |-> rooms, data |-> sockData, sio |-> sioRooms]

\* Variant of the join that does not record the key in data.rooms.
BadJoined(st, s, roomId) ==
    [rooms |-> [st.rooms EXCEPT ![roomId].members = @ \cup {st.data[s].odv}],
     data  |-> st.data,
     sio   |-> [st.sio EXCEPT ![s] = @ \cup {roomId}]]

\* Variant of the join that moves the subject: it is taken out of every
\* other room.
BadMovedJoined(st, s, roomId) ==
    [rooms |-> [k \in DOMAIN st.rooms |->
                  [st.rooms[k] EXCEPT !.members =
                      IF k = roomId THEN @ \cup {st.data[s].odv}
                      ELSE @ \ {st.data[s].odv}]],
     data  |-> [st.data EXCEPT ![s].rooms = @ \cup {roomId}],
     sio   |-> [st.sio EXCEPT ![s] = @ \cup {roomId}]]

\* rooms.ts:100-105  socket.join(roomId); room.members.add(odv); data.rooms.add(roomId)
\* st.rooms already holds the room (getOrCreateRoom ran).
Joined(st, s, roomId) ==
    [rooms |-> [st.rooms EXCEPT ![roomId].members = @ \cup {st.data[s].odv}],
     data  |-> [st.data EXCEPT ![s].rooms = @ \cup {roomId}],
     sio   |-> [st.sio EXCEPT ![s] = @ \cup {roomId}]]

\* Variant of the leave that deletes the room it has emptied.
BadLeft(st, s, type, id) ==
    LET roomId == getRoomId(type, id)
        rs     == IF roomId \in DOMAIN st.rooms
                  THEN [st.rooms EXCEPT ![roomId].members = @ \ {st.data[s].odv}]
                  ELSE st.rooms
    IN  [rooms |-> [k \in {r \in DOMAIN rs : r # roomId \/ rs[r].members # {}}
                      |-> rs[k]],
         data  |-> [st.data EXCEPT ![s].rooms = @ \ {roomId}],
         sio   |-> [st.sio EXCEPT ![s] = @ \ {roomId}]]

\* rooms.ts:119-142  leaveRoom(socket, type, id), run to completion
Left(st, s, type, id) ==
    LET roomId == getRoomId(type, id)
    IN  [rooms |-> IF roomId \in DOMAIN st.rooms
                   THEN [st.rooms EXCEPT ![roomId].members = @ \ {st.data[s].odv}]
                   ELSE st.rooms,
         data  |-> [st.data EXCEPT ![s].rooms = @ \ {roomId}],
         sio   |-> [st.sio EXCEPT ![s] = @ \ {roomId}]]

\* rooms.ts:152-157  the loop of leaveAllRooms over the room ids in `todo`:
\* a key that parseRoomId rejects is skipped.
RECURSIVE LeftAll(_, _, _)
LeftAll(st, s, todo) ==
    IF todo = {} THEN st
    ELSE LET roomId == CHOOSE k \in todo : TRUE
             parsed == parseRoomId(roomId)
             st1    == IF parsed.null THEN st
                       ELSE Left(st, s, parsed.type, parsed.id)
         IN  LeftAll(st1, s, todo \ {roomId})

NoCall == [op |-> "none"]

SetStores(st) ==
    /\ rooms' = st.rooms
    /\ sockData' = st.data
    /\ sioRooms' = st.sio

---------------------------------------------------------------------------
(* Calls run to completion (no other call runs between a call's steps)     *)

\* rooms.ts:84-114
JoinRoom(s, type, id) ==
    LET roomId == getRoomId(type, id)
        rs     == GetOrCreateRoom(rooms, type, id)
        room   == rs[roomId]
        st     == [Stores EXCEPT !.rooms = rs]
    IN  /\ pending = {}
        /\ roomId \in DOMAIN rooms \/ Cardinality(DOMAIN rooms) < MaxRooms
        /\ IF RoomFull(room, type)
           THEN /\ SetStores(st)
                /\ last' = [op |-> "join", s |-> s, type |-> type, id |-> id,
                            ret |-> FALSE, emits |-> {<<s, "room_full">>}]
           ELSE /\ SetStores(Joined(st, s, roomId))
                /\ last' = [op |-> "join", s |-> s, type |-> type, id |-> id,
                            ret |-> TRUE, emits |-> {}]
        /\ UNCHANGED <<pending, rateVars, keyVars, sideVars>>

\* rooms.ts:119-142
LeaveRoom(s, type, id) ==
    /\ pending = {}
    /\ SetStores(Left(Stores, s, type, id))
    /\ last' = [op |-> "leave", s |-> s, type |-> type, id |-> id,
                ret |-> TRUE, emits |-> {}]
    /\ UNCHANGED <<pending, rateVars, keyVars, sideVars>>

\* rooms.ts:147-158
LeaveAllRooms(s) ==
    /\ pending = {}
    /\ SetStores(LeftAll(Stores, s, sockData[s].rooms))
    /\ last' = [op |-> "leaveAll", s |-> s, type |-> <<>>, id |-> <<>>,
                ret |-> TRUE, emits |-> {}]
    /\ UNCHANGED <<pending, rateVars, keyVars, sideVars>>

\* rooms.ts:69-76
CleanupEmptyRooms ==
    /\ pending = {}
    /\ rooms' = Sweep(rooms)
    /\ last' = [op |-> "cleanup", s |-> 0, type |-> <<>>, id |-> <<>>,
                ret |-> TRUE, emits |-> {}]
    /\ UNCHANGED <<sockData, sioRooms, pending, rateVars, keyVars, sideVars>>

InitRate ==
    /\ connectionAttempts = <<>>
    /\ now = 0
    /\ window = <<>>
    /\ lastAdmit = NoCall

InitKey ==
    /\ keyIn = [kind |-> "none"]
    /\ keyOut = Null

\* No connection attempt is in the middleware, no user is stored, no
\* session has disconnected, and no twin is kept.
InitSide ==
    /\ conns = <<>>
    /\ users = <<>>
    /\ closed = {}
    /\ shadow = NoCall

\* The state after module load and the authentication of the sessions:
\* no room, every session with an empty room set (rooms.ts:19, 373).
Init ==
    /\ rooms = <<>>
    /\ sockData = [s \in Sessions |-> [odv |-> OdvOf(s), rooms |-> {}]]
    /\ sioRooms = [s \in Sessions |-> {}]
    /\ pending = {}
    /\ last = NoCall
    /\ InitRate
    /\ InitKey
    /\ InitSide

Next ==
    \/ \E s \in Sessions, tg \in Targets : JoinRoom(s, tg[1], tg[2])
    \/ \E s \in Sessions, tg \in Targets : LeaveRoom(s, tg[1], tg[2])
    \/ \E s \in Sessions : LeaveAllRooms(s)
    \/ CleanupEmptyRooms

Spec == Init /\ [][Next]_vars

---------------------------------------------------------------------------
(* Runs that start with a crowd: besides the sessions that issue calls,    *)
(* n further sessions of n further subjects have each joined one room of   *)
(* a bounded type (n successful joinRoom calls), filling it to just below  *)
(* or exactly its limit.  The crowd's sessions issue no further call.      *)

CrowdSessions(n) == (MaxSessions + 1)..(MaxSessions + n)

CrowdLevels(type) ==
    {ROOM_LIMITS[type].n - 2, ROOM_LIMITS[type].n - 1, ROOM_LIMITS[type].n}

CrowdInit(types) ==
    /\ \E type \in types : \E n \in CrowdLevels(type) :
         LET roomId == getRoomId(type, <<"a">>)
             crowd  == CrowdSessions(n)
         IN  /\ rooms = IF n = 0 THEN <<>>
                        ELSE roomId :> [type |-> type, id |-> <<"a">>,
                                        members |-> {SubjectId(c) : c \in crowd}]
             /\ sockData = [s \in Sessions \cup crowd |->
                              IF s \in Sessions
                              THEN [odv |-> OdvOf(s), rooms |-> {}]
                              ELSE [odv |-> SubjectId(s), rooms |-> {roomId}]]
             /\ sioRooms = [s \in Sessions \cup crowd |->
                              IF s \in Sessions THEN {} ELSE {roomId}]
    /\ pending = {}
    /\ last = NoCall
    /\ InitRate
    /\ InitKey
    /\ InitSide

InitCrowd == CrowdInit({Battle, Game, Spot})

NextCrowd ==
    \/ \E s \in Callers, tg \in CrowdTargets : JoinRoom(s, tg[1], tg[2])
    \/ \E s \in Callers, tg \in CrowdTargets : LeaveRoom(s, tg[1], tg[2])
    \/ \E s \in Callers : LeaveAllRooms(s)
    \/ CleanupEmptyRooms

SpecCrowd == InitCrowd /\ [][NextCrowd]_vars


---------------------------------------------------------------------------
(* Calls interleaved at their suspension points.  A call runs from its     *)
(* start to its await (joinRoom:101, leaveRoom:129) in one step and from   *)
(* the await to its return in another; other calls and the sweep may run   *)
(* in between.  A suspended call holds the RoomInfo object it looked up:   *)
(* `ref` tells whether that object is still the one in the registry        *)
(* ("live"), was deleted from it by a sweep meanwhile ("stale"), or was    *)
(* not found (leaveRoom's rooms.get returned undefined, "none").  Writes   *)
(* to a stale object reach no state that any later call reads.             *)

\* rooms.ts:89-101  joinRoom up to `await socket.join(roomId)`
JoinCall(s, type, id) ==
    LET roomId == getRoomId(type, id)
        rs     == GetOrCreateRoom(rooms, type, id)
        room   == rs[roomId]
        task   == [op |-> "join", s |-> s, type |-> type, id |-> id, ref |-> "live"]
    IN  /\ roomId \in DOMAIN rooms \/ Cardinality(DOMAIN rooms) < MaxRooms
        /\ rooms' = rs
        /\ IF RoomFull(room, type)
           THEN /\ last' = [op |-> "join", s |-> s, type |-> type, id |-> id,
                            ret |-> FALSE, emits |-> {<<s, "room_full">>}]
                /\ UNCHANGED <<sioRooms, pending>>
           ELSE /\ Cardinality(pending) < MaxPending
                /\ task \notin pending
                /\ sioRooms' = [sioRooms EXCEPT ![s] = @ \cup {roomId}]
                /\ pending' = pending \cup {task}
                /\ UNCHANGED last
        /\ UNCHANGED <<sockData, rateVars, keyVars, sideVars>>

\* rooms.ts:103-113  joinRoom from the await to `return true`
JoinReturn(task) ==
    LET roomId == getRoomId(task.type, task.id)
        odv    == sockData[task.s].odv
    IN  /\ task.op = "join"
        /\ rooms' = IF task.ref = "live"
                    THEN [rooms EXCEPT ![roomId].members = @ \cup {odv}]
                    ELSE rooms
        /\ sockData' = [sockData EXCEPT ![task.s].rooms = @ \cup {roomId}]
        /\ pending' = pending \ {task}
        /\ last' = [op |-> "join", s |-> task.s, type |-> task.type,
                    id |-> task.id, ret |-> TRUE, emits |-> {}]
        /\ UNCHANGED <<sioRooms, rateVars, keyVars, sideVars>>

\* rooms.ts:124-129  leaveRoom up to `await socket.leave(roomId)`
LeaveCall(s, type, id) ==
    LET roomId == getRoomId(type, id)
        task   == [op |-> "leave", s |-> s, type |-> type, id |-> id,
                   ref |-> IF roomId \in DOMAIN rooms THEN "live" ELSE "none"]
    IN  /\ Cardinality(pending) < MaxPending
        /\ task \notin pending
        /\ sioRooms' = [sioRooms EXCEPT ![s] = @ \ {roomId}]
        /\ pending' = pending \cup {task}
        /\ UNCHANGED <<rooms, sockData, last, rateVars, keyVars, sideVars>>

\* rooms.ts:131-141  leaveRoom from the await to its return
LeaveReturn(task) ==
    LET roomId == getRoomId(task.type, task.id)
        odv    == sockData[task.s].odv
    IN  /\ task.op = "leave"
        /\ rooms' = IF task.ref = "live"
                    THEN [rooms EXCEPT ![roomId].members = @ \ {odv}]
                    ELSE rooms
        /\ sockData' = [sockData EXCEPT ![task.s].rooms = @ \ {roomId}]
        /\ pending' = pending \ {task}
        /\ last' = [op |-> "leave", s |-> task.s, type |-> task.type,
                    id |-> task.id, ret |-> TRUE, emits |-> {}]
        /\ UNCHANGED <<sioRooms, rateVars, keyVars, sideVars>>

\* rooms.ts:69-76  the sweep, run by the timer between any two steps
CleanupTick ==
    LET rs == Sweep(rooms)
    IN  /\ rooms' = rs
        /\ pending' = {IF t.ref = "live" /\ getRoomId(t.type, t.id) \notin DOMAIN rs
                       THEN [t EXCEPT !.ref = "stale"] ELSE t : t \in pending}
        /\ last' = [op |-> "cleanup", s |-> 0, type |-> <<>>, id |-> <<>>,
                    ret |-> TRUE, emits |-> {}]
        /\ UNCHANGED <<sockData, sioRooms, rateVars, keyVars, sideVars>>

\* One battle room may already hold members of other subjects.
InitAsync == CrowdInit({Battle})

\* The rooms asked for while calls interleave.
AsyncTargets == {<<Battle, <<"a">> >>, <<Global, <<"a">> >>}

NextAsync ==
    \/ \E s \in Callers, tg \in AsyncTargets : JoinCall(s, tg[1], tg[2])
    \/ \E task \in pending : JoinReturn(task)
    \/ \E s \in Callers, tg \in AsyncTargets : LeaveCall(s, tg[1], tg[2])
    \/ \E task \in pending : LeaveReturn(task)
    \/ CleanupTick

SpecAsync == InitAsync /\ [][NextAsync]_vars

---------------------------------------------------------------------------
(* Properties of the room registry, calls run to completion                *)

\* The capacity table as the specification states it.
HasCeiling(type) == type \in {Battle, Game, Spot}
Ceiling(type) ==
    CASE type = Battle -> 2
      [] type = Game   -> 8
      [] type = Spot   -> 100

SizeOf(rs, roomId) ==
    IF roomId \in DOMAIN rs THEN Cardinality(rs[roomId].members) ELSE 0

LastKey(l) == getRoomId(l.type, l.id)

\* C1: after any sequence of joinRoom, leaveRoom, leaveAllRooms and
\* cleanupEmptyRooms calls, each run to completion, every room of the
\* registry has at most capacity(type) members (battle 2, game 8, spot 100).
C1_Capacity ==
    \A k \in DOMAIN rooms :
        HasCeiling(rooms[k].type) =>
            Cardinality(rooms[k].members) <= Ceiling(rooms[k].type)

\* A spot room filled to its 100 members has just turned a caller away.
C1_Witness ==
    /\ last.op = "join" /\ ~last.ret /\ last.type = Spot
    /\ SizeOf(rooms, LastKey(last)) = 100

\* C3: whenever no call is in progress, a room key is in a session's room
\* set exactly if the registry holds that room and lists the session's
\* subject as a member; also for several sessions of one subject.
C3_Consistency ==
    pending = {} =>
        \A s \in DOMAIN sockData :
            \A k \in DOMAIN rooms \cup sockData[s].rooms :
                k \in sockData[s].rooms
                    <=> (k \in DOMAIN rooms /\ sockData[s].odv \in rooms[k].members)

\* C4: once leaveAllRooms(session) has completed, the session's room set
\* is empty and its subject is a member of no room.
C4_LeaveAllPost ==
    last.op = "leaveAll" =>
        /\ sockData[last.s].rooms = {}
        /\ \A k \in DOMAIN rooms : sockData[last.s].odv \notin rooms[k].members

\* C5: a joinRoom that immediately follows a joinRoom of the same session
\* and room that returned true also returns true, emits no error and
\* leaves the size of the member set as it was.
C5_JoinIdempotent ==
    [][(/\ last.op = "join" /\ last.ret
        /\ last'.op = "join"
        /\ last'.s = last.s /\ last'.type = last.type /\ last'.id = last.id)
       => (/\ last'.ret
           /\ last'.emits = {}
           /\ SizeOf(rooms', LastKey(last)) = SizeOf(rooms, LastKey(last)))]_vars

\* C6: joinRoom returns false exactly when the room already holds
\* capacity(type) members or more; it then emits room_full to the caller
\* only and changes neither the registry nor the caller's room set nor its
\* subscriptions.  Otherwise it returns true with the subject in the member
\* set and the key in the session's set; a global room never rejects.
C6_RejectBeforeMutate ==
    [][last'.op = "join" =>
        LET l    == last'
            k    == LastKey(l)
            full == HasCeiling(l.type) /\ SizeOf(rooms, k) >= Ceiling(l.type)
        IN  /\ l.ret <=> ~full
            /\ l.type = Global => l.ret
            /\ full => /\ l.emits = {<<l.s, "room_full">>}
                       /\ rooms' = rooms
                       /\ sockData' = sockData
                       /\ sioRooms' = sioRooms
            /\ ~full => /\ l.emits = {}
                        /\ k \in DOMAIN rooms'
                        /\ sockData[l.s].odv \in rooms'[k].members
                        /\ k \in sockData'[l.s].rooms]_vars

\* The battle scenario: two members in, a third subject has been rejected.
C6_Witness ==
    /\ last.op = "join" /\ ~last.ret /\ last.type = Battle
    /\ last.emits = {<<last.s, "room_full">>}
    /\ SizeOf(rooms, LastKey(last)) = 2
    /\ sockData[last.s].odv \notin rooms[LastKey(last)].members
    /\ LastKey(last) \notin sockData[last.s].rooms

\* C10: only cleanupEmptyRooms removes a room from the registry (a room
\* that became empty stays until the next run); a run removes exactly the
\* rooms that are empty at that time and changes no member set.
C10_Sweep ==
    [][/\ last'.op # "cleanup" => DOMAIN rooms \subseteq DOMAIN rooms'
       /\ last'.op = "cleanup" =>
            /\ DOMAIN rooms' = {k \in DOMAIN rooms : rooms[k].members # {}}
            /\ \A k \in DOMAIN rooms' : rooms'[k] = rooms[k]]_vars

\* A run has removed an emptied room (a session still holds its key) and
\* has kept a room that had a member.
C10_Witness ==
    /\ last.op = "cleanup"
    /\ \E k \in DOMAIN rooms : rooms[k].members # {}
    /\ \E s \in Sessions : \E k \in sockData[s].rooms : k \notin DOMAIN rooms


---------------------------------------------------------------------------
(* Room keys: getRoomId and parseRoomId as functions of their input        *)

RECURSIVE StringsUpTo(_, _)
StringsUpTo(alphabet, n) ==
    IF n = 0 THEN {<<>>}
    ELSE LET shorter == StringsUpTo(alphabet, n - 1)
         IN  shorter \cup {Append(s, c) : s \in shorter, c \in alphabet}

\* Ids a client can send (":" included) and raw keys (any string).
IdStrings  == StringsUpTo({"a", COLON}, MaxIdLen)
KeyStrings == StringsUpTo({"battle", "a", COLON}, MaxKeyLen)

\* parseRoomId(getRoomId(type, id))
RoundTrip(type, id) ==
    /\ keyIn' = [kind |-> "pair", type |-> type, id |-> id,
                 key |-> getRoomId(type, id)]
    /\ keyOut' = parseRoomId(getRoomId(type, id))
    /\ UNCHANGED <<roomVars, rateVars, sideVars>>

\* parseRoomId(key)
ParseKey(key) ==
    /\ keyIn' = [kind |-> "raw", type |-> <<>>, id |-> <<>>, key |-> key]
    /\ keyOut' = parseRoomId(key)
    /\ UNCHANGED <<roomVars, rateVars, sideVars>>

NextKey ==
    \/ \E type \in RoomType, id \in IdStrings : RoundTrip(type, id)
    \/ \E key \in KeyStrings : ParseKey(key)

SpecKey == Init /\ [][NextKey]_vars

HasColon(s) == \E i \in 1..Len(s) : s[i] = COLON

\* A key that lacks its type segment or its id segment: the empty string,
\* no ":" at all, nothing before the first ":", nothing after it.
LacksSegment(key) ==
    \/ key = <<>>
    \/ ~HasColon(key)
    \/ key[1] = COLON
    \/ (key[Len(key)] = COLON /\ \A i \in 1..(Len(key) - 1) : key[i] # COLON)

\* C7: parseRoomId(getRoomId(type, id)) is exactly {type, id} for every room
\* type and every non-empty id, ids that hold ":" included; a key that lacks
\* a segment parses to null, which carries neither a type nor an id.
C7_RoundTrip ==
    /\ (keyIn.kind = "pair" /\ keyIn.id # <<>>) =>
          keyOut = [null |-> FALSE, type |-> keyIn.type, id |-> keyIn.id]
    /\ (keyIn.kind \in {"pair", "raw"} /\ LacksSegment(keyIn.key)) =>
          (keyOut = Null /\ DOMAIN keyOut = {"null"})

\* An id with ":" in the middle has come back whole.
C7_Witness ==
    /\ keyIn.kind = "pair"
    /\ keyIn.id = <<"a", COLON, "a">>
    /\ keyOut.null = FALSE /\ keyOut.id = keyIn.id /\ keyOut.type = keyIn.type


---------------------------------------------------------------------------
(* Connection rate limiter                                                 *)

\* rooms.ts:254-255
MAX_CONNECTIONS_PER_MINUTE == 10
RATE_LIMIT_WINDOW_MS == 60 * 1000

\* Source addresses (socket.handshake.address).
Ips == {"ip1", "ip2"}

\* Variant that compares the count with > for >=.
BadCountCheckRateLimit(ca, ip, t) ==
    IF ip \notin DOMAIN ca \/ t > ca[ip].resetAt
    THEN [map |-> (ip :> [count |-> 1, resetAt |-> t + RATE_LIMIT_WINDOW_MS]) @@ ca,
          ret |-> TRUE]
    ELSE IF ca[ip].count > MAX_CONNECTIONS_PER_MINUTE
    THEN [map |-> ca, ret |-> FALSE]
    ELSE [map |-> [ca EXCEPT ![ip].count = @ + 1], ret |-> TRUE]

\* Variant that increments the count of a denied attempt too.
BadDenyCheckRateLimit(ca, ip, t) ==
    IF ip \notin DOMAIN ca \/ t > ca[ip].resetAt
    THEN [map |-> (ip :> [count |-> 1, resetAt |-> t + RATE_LIMIT_WINDOW_MS]) @@ ca,
          ret |-> TRUE]
    ELSE [map |-> [ca EXCEPT ![ip].count = @ + 1],
          ret |-> ca[ip].count < MAX_CONNECTIONS_PER_MINUTE]

\* Variant that opens a window in a fresh map, dropping the other sources.
BadSharedCheckRateLimit(ca, ip, t) ==
    IF ip \notin DOMAIN ca \/ t > ca[ip].resetAt
    THEN [map |-> (ip :> [count |-> 1, resetAt |-> t + RATE_LIMIT_WINDOW_MS]),
          ret |-> TRUE]
    ELSE IF ca[ip].count >= MAX_CONNECTIONS_PER_MINUTE
    THEN [map |-> ca, ret |-> FALSE]
    ELSE [map |-> [ca EXCEPT ![ip].count = @ + 1], ret |-> TRUE]

\* rooms.ts:275-290  checkRateLimit(ip) at time t on the map ca:
\* the map it leaves and the value it returns.
checkRateLimit(ca, ip, t) ==
    IF ip \notin DOMAIN ca \/ t > ca[ip].resetAt
    THEN [map |-> (ip :> [count |-> 1, resetAt |-> t + RATE_LIMIT_WINDOW_MS]) @@ ca,
          ret |-> TRUE]
    ELSE IF ca[ip].count >= MAX_CONNECTIONS_PER_MINUTE
    THEN [map |-> ca, ret |-> FALSE]
    ELSE [map |-> [ca EXCEPT ![ip].count = @ + 1], ret |-> TRUE]

\* Ghost: the window an attempt at time t falls into.  A window opens with
\* the first attempt of a source, or with its first attempt made strictly
\* after the previous window's start + 60 s; `calls` counts its attempts.
Counted(w, ip, t) ==
    IF ip \notin DOMAIN w \/ t > w[ip].start + 60000
    THEN (ip :> [start |-> t, calls |-> 1]) @@ w
    ELSE [w EXCEPT ![ip].calls = @ + 1]

\* rooms.ts:275-290
CheckRateLimit(ip) ==
    LET r == checkRateLimit(connectionAttempts, ip, now)
        w == Counted(window, ip, now)
    IN  /\ w[ip].calls <= MaxAttempts
        /\ connectionAttempts' = r.map
        /\ window' = w
        /\ lastAdmit' = [op |-> "admit", ip |-> ip, ret |-> r.ret]
        /\ UNCHANGED <<now, roomVars, keyVars, sideVars>>

\* Variant that deletes an entry at its resetAt already.
BadCleanupRateLimits(ca, t) ==
    [ip \in {i \in DOMAIN ca : ~(t >= ca[i].resetAt)} |-> ca[ip]]

\* rooms.ts:260-267  connectionAttempts after cleanupRateLimits() at time t
cleanupRateLimits(ca, t) ==
    [ip \in {i \in DOMAIN ca : ~(t > ca[i].resetAt)} |-> ca[ip]]

\* rooms.ts:260-267  (run by the timer of line 270)
CleanupRateLimits ==
    /\ connectionAttempts' = cleanupRateLimits(connectionAttempts, now)
    /\ lastAdmit' = [op |-> "sweep"]
    /\ UNCHANGED <<now, window, roomVars, keyVars, sideVars>>

\* Date.now() advances: by half a window, or by one millisecond.
CoarseStep == RATE_LIMIT_WINDOW_MS \div 2

Tick(d) ==
    /\ \/ d = CoarseStep /\ now \div CoarseStep < MaxCoarse
       \/ d = 1 /\ now % CoarseStep < MaxJitter
    /\ now' = now + d
    /\ lastAdmit' = [op |-> "tick"]
    /\ UNCHANGED <<connectionAttempts, window, roomVars, keyVars, sideVars>>

NextRate ==
    \/ \E ip \in Ips : CheckRateLimit(ip)
    \/ CleanupRateLimits
    \/ \E d \in {1, CoarseStep} : Tick(d)

SpecRate == Init /\ [][NextRate]_vars

\* C8: with ceiling 10 and window 60 s, the 1st to 10th attempts of a source
\* made no later than the window's resetAt return true, the 11th and later
\* ones return false, and the first attempt made strictly after resetAt
\* returns true and leaves the entry {count: 1, resetAt: now + 60 s}.
C8_Window ==
    \A ip \in DOMAIN window :
        /\ (lastAdmit.op = "admit" /\ lastAdmit.ip = ip) =>
              /\ lastAdmit.ret <=> window[ip].calls <= 10
              /\ ip \in DOMAIN connectionAttempts
              /\ window[ip].calls = 1 =>
                    connectionAttempts[ip] =
                        [count |-> 1, resetAt |-> now + 60000]
        /\ ip \in DOMAIN connectionAttempts =>
              connectionAttempts[ip].resetAt = window[ip].start + 60000

\* The 11th attempt of a window, made exactly at resetAt, was denied, in a
\* window that is not the source's first.
C8_Witness ==
    \E ip \in DOMAIN window :
        /\ lastAdmit = [op |-> "admit", ip |-> ip, ret |-> FALSE]
        /\ window[ip].calls = 11
        /\ window[ip].start > 0
        /\ now = connectionAttempts[ip].resetAt

C9_Range ==
    \A ip \in DOMAIN connectionAttempts :
        /\ 1 <= connectionAttempts[ip].count
        /\ connectionAttempts[ip].count <= 10

\* C9: a denied checkRateLimit leaves the source's entry as it was, and
\* every entry always has 1 <= count <= 10.
C9_BoundedCounter ==
    [][/\ C9_Range /\ C9_Range'
       /\ (lastAdmit'.op = "admit" /\ ~lastAdmit'.ret) =>
             connectionAttempts' = connectionAttempts]_vars

\* A source denied twice in one window still has count 10.
C9_Witness ==
    \E ip \in DOMAIN window :
        /\ lastAdmit = [op |-> "admit", ip |-> ip, ret |-> FALSE]
        /\ window[ip].calls = 12
        /\ connectionAttempts[ip].count = 10


---------------------------------------------------------------------------
(* Properties of interleaved calls                                         *)

\* C2: when joinRoom calls of sessions of distinct subjects for one room
\* are in progress at once, interleaved at the await of socket.join, the
\* room's member set never grows beyond capacity(type).
C2_ConcurrentCapacity ==
    \A k \in DOMAIN rooms :
        HasCeiling(rooms[k].type) =>
            Cardinality(rooms[k].members) <= Ceiling(rooms[k].type)

---------------------------------------------------------------------------
(* The sweep against a suspended join                                      *)

\* C11: the sweep is atomic with respect to a join: when cleanupEmptyRooms
\* runs while a joinRoom for an empty or newly created room is suspended
\* between its look-up and its membership add, then once that joinRoom has
\* returned true the registry still holds the room and the room lists the
\* caller's subject.
C11_SweepAtomic ==
    (last.op = "join" /\ last.ret) =>
        /\ LastKey(last) \in DOMAIN rooms
        /\ sockData[last.s].odv \in rooms[LastKey(last)].members

---------------------------------------------------------------------------
(* Authentication of a connection: socketAuthMiddleware                    *)
(* A connection attempt runs from its entry to `await verifyIdToken` in    *)
(* one step, from there to `await findUserByFirebaseUid` in a second and   *)
(* from there to its end in a third; other attempts, room calls of the     *)
(* sessions already attached and changes of the user store may run in      *)
(* between.                                                                *)

MaxConns == 2        \* sockets that are in or past the middleware at once

Conns == 1..MaxConns

\* socket.handshake.address of the attempts
Sources == {"ip1"}

\* Values of socket.handshake.auth?.token: undefined (no auth or no token),
\* the empty string, a number, and strings that may be ID tokens.
Undefined == [kind |-> "undefined", text |-> ""]
Str(x) == [kind |-> "string", text |-> x]
Num(x) == [kind |-> "number", text |-> x]
Credentials ==
    {Undefined, Str(""), Num("42"), Str("junk"), Str("tA"), Str("tB"), Str("tC")}

\* JavaScript's !v for these values
Falsy(v) ==
    \/ v.kind = "undefined"
    \/ v.kind = "string" /\ v.text = ""
    \/ v.kind = "number" /\ v.text = "0"

\* Variant without the typeof test.
BadTokenMissing(cred) == Falsy(cred)

\* rooms.ts:323  !token || typeof token !== "string"
TokenMissing(cred) == Falsy(cred) \/ cred.kind # "string"

\* What admin.auth().verifyIdToken decodes the ID tokens to (rooms.ts:334):
\* the provider's uid and the custom claim `admin`, which is any JSON value
\* or absent.  A string outside this table is no ID token.
IdTokens ==
    ("tA" :> [uid |-> "fbA", admin |-> "true"]) @@
    ("tB" :> [uid |-> "fbB", admin |-> "undefined"]) @@
    ("tC" :> [uid |-> "fbC", admin |-> "1"]) 

NoDecoded == [uid |-> "", admin |-> "undefined"]

\* JavaScript's truthiness of a claim value
Truthy(v) == v \notin {"undefined", "false", "0", "", "null"}

\* The user store at start: fbA and fbB have records, fbC has none.
UserStore ==
    ("fbA" :> [id |-> SubjectId(1), isActive |-> TRUE]) @@
    ("fbB" :> [id |-> SubjectId(2), isActive |-> TRUE])

\* Variant that takes the subject id from the token instead of the record.
BadSocketDataOf(user, decoded) ==
    [userId |-> user.id, odv |-> decoded.uid, firebaseUid |-> decoded.uid,
     roles |-> IF Truthy(decoded.admin) THEN {"admin"} ELSE {},
     rooms |-> {}]

\* rooms.ts:363-374  the SocketData built for an accepted attempt
\* (connectedAt is left out: nothing reads it).
SocketDataOf(user, decoded) ==
    [userId |-> user.id, odv |-> user.id, firebaseUid |-> decoded.uid,
     roles |-> IF Truthy(decoded.admin) THEN {"admin"} ELSE {},
     rooms |-> {}]

\* Variant that addresses the channel named by the bare user id.
BadUserChannel(odv) == <<odv>>

\* rooms.ts:190  `user:${odv}`
UserChannel(odv) == <<"user", COLON, odv>>

\* Variant that also opens a room for the user in the registry.
BadAttached(st, c, sd) ==
    [rooms |-> (UserChannel(sd.odv) :>
                  [type |-> <<"user">>, id |-> <<sd.odv>>, members |-> {sd.odv}])
               @@ st.rooms,
     data  |-> (c :> sd) @@ st.data,
     sio   |-> (c :> {}) @@ st.sio]

\* rooms.ts:377  socket.data = socketData, on a socket subscribed to no room
Attached(st, c, sd) ==
    [rooms |-> st.rooms,
     data  |-> (c :> sd) @@ st.data,
     sio   |-> (c :> {}) @@ st.sio]

\* The personal channel of a subject, as the connection handler names it.
PersonalChannel(odv) == <<"user", ":", odv>>

\* The connection handler run once the middleware has called next():
\* it subscribes the socket to its subject's personal channel.
Connected(st, c) ==
    [st EXCEPT !.sio[c] = @ \cup {PersonalChannel(st.data[c].odv)}]

\* rooms.ts:400-403  data?.roles?.includes("admin") ?? false
requireSocketAdmin(sd, c) == c \in DOMAIN sd /\ "admin" \in sd[c].roles

NewConn(ip, cred) ==
    [pc |-> "start", ip |-> ip, token |-> cred, decoded |-> NoDecoded,
     nexts |-> <<>>, invoked |-> {}]

\* return next(new Error(code))
Rejected(conn, code) ==
    [conn EXCEPT !.pc = "done", !.nexts = Append(@, code)]

\* Variant that looks at the credential first and charges the rate limit
\* only to attempts that carry one.
BadOrderAuthStart(c, ip, cred) ==
    LET r    == checkRateLimit(connectionAttempts, ip, now)
        conn == NewConn(ip, cred)
    IN  /\ c \notin DOMAIN sockData
        /\ c \in DOMAIN conns => conns[c].pc = "done"
        /\ connectionAttempts' = IF TokenMissing(cred) THEN connectionAttempts ELSE r.map
        /\ conns' = (c :> (IF TokenMissing(cred)
                           THEN Rejected(conn, "authentication_required")
                           ELSE IF ~r.ret
                           THEN Rejected(conn, "rate_limit_exceeded")
                           ELSE [conn EXCEPT !.pc = "verify",
                                             !.invoked = {"verifyIdToken"}]))
                    @@ conns
        /\ UNCHANGED <<roomVars, now, window, lastAdmit, keyVars,
                       users, closed, shadow>>

\* rooms.ts:310-334  from entry to `await admin.auth().verifyIdToken`
AuthStart(c, ip, cred) ==
    LET r    == checkRateLimit(connectionAttempts, ip, now)
        conn == NewConn(ip, cred)
    IN  /\ c \notin DOMAIN sockData
        /\ c \in DOMAIN conns => conns[c].pc = "done"
        /\ connectionAttempts' = r.map
        /\ conns' = (c :> (IF ~r.ret
                           THEN Rejected(conn, "rate_limit_exceeded")
                           ELSE IF TokenMissing(cred)
                           THEN Rejected(conn, "authentication_required")
                           ELSE [conn EXCEPT !.pc = "verify",
                                             !.invoked = {"verifyIdToken"}]))
                    @@ conns
        /\ UNCHANGED <<roomVars, now, window, lastAdmit, keyVars,
                       users, closed, shadow>>

\* rooms.ts:334-344  verifyIdToken resolves (ok) or throws, and the lookup
\* is started.  A string that is no ID token never verifies; an ID token
\* may fail to verify too (expired, revoked).
VerifyReturn(c, ok) ==
    /\ c \in DOMAIN conns /\ conns[c].pc = "verify"
    /\ ok => conns[c].token.text \in DOMAIN IdTokens
    /\ conns' = [conns EXCEPT ![c] =
                   IF ok
                   THEN [conns[c] EXCEPT
                           !.pc = "lookup",
                           !.decoded = IdTokens[conns[c].token.text],
                           !.invoked = @ \cup {"findUserByFirebaseUid"}]
                   ELSE Rejected(conns[c], "invalid_token")]
    /\ UNCHANGED <<roomVars, rateVars, keyVars, users, closed, shadow>>

\* rooms.ts:344-393  findUserByFirebaseUid resolves with the record or
\* null, or throws (the store is unreachable), and the attempt ends.
LookupReturn(c, thrown) ==
    /\ c \in DOMAIN conns /\ conns[c].pc = "lookup"
    /\ LET conn == conns[c]
           uid  == conn.decoded.uid
       IN  IF thrown
           THEN /\ conns' = [conns EXCEPT ![c] = Rejected(conn, "authentication_failed")]
                /\ UNCHANGED <<rooms, sockData, sioRooms>>
           ELSE IF uid \notin DOMAIN users
           THEN /\ conns' = [conns EXCEPT ![c] = Rejected(conn, "user_not_found")]
                /\ UNCHANGED <<rooms, sockData, sioRooms>>
           ELSE IF ~users[uid].isActive
           THEN /\ conns' = [conns EXCEPT ![c] = Rejected(conn, "account_inactive")]
                /\ UNCHANGED <<rooms, sockData, sioRooms>>
           ELSE /\ conns' = [conns EXCEPT ![c] =
                               [conn EXCEPT !.pc = "done", !.nexts = Append(@, "ok")]]
                /\ SetStores(Connected(
                       Attached(Stores, c, SocketDataOf(users[uid], conn.decoded)), c))
    /\ UNCHANGED <<pending, last, rateVars, keyVars, users, closed, shadow>>

\* The account of a user is marked inactive or active again.
SetActive(uid, b) ==
    /\ users[uid].isActive # b
    /\ users' = [users EXCEPT ![uid].isActive = b]
    /\ UNCHANGED <<roomVars, rateVars, keyVars, conns, closed, shadow>>

\* rooms.ts:190  io.to(`user:${odv}`).emit reaches the sockets subscribed
\* to that channel.
SendRecipients(sio, odv) == {s \in DOMAIN sio : UserChannel(odv) \in sio[s]}

\* rooms.ts:183-191  `sessions` notes the sessions of the subject that are
\* connected when the call runs.
SendToUser(odv) ==
    /\ pending = {}
    /\ last' = [op |-> "send", s |-> 0, type |-> <<"user">>, id |-> <<odv>>,
                ret |-> TRUE,
                emits |-> {<<r, "event">> : r \in SendRecipients(sioRooms, odv)},
                sessions |-> {s \in DOMAIN sockData : sockData[s].odv = odv}]
    /\ UNCHANGED <<rooms, sockData, sioRooms, pending, rateVars, keyVars, sideVars>>

\* The room the attached sessions ask for.
AuthTargets == {<<Battle, <<"a">> >>}

InitAuth ==
    /\ rooms = <<>>
    /\ sockData = <<>>
    /\ sioRooms = <<>>
    /\ pending = {}
    /\ last = NoCall
    /\ InitRate
    /\ InitKey
    /\ conns = <<>>
    /\ users = UserStore
    /\ closed = {}
    /\ shadow = NoCall

NextAuth ==
    \/ \E c \in Conns, ip \in Sources, cred \in Credentials : AuthStart(c, ip, cred)
    \/ \E c \in Conns, ok \in BOOLEAN : VerifyReturn(c, ok)
    \/ \E c \in Conns, thrown \in BOOLEAN : LookupReturn(c, thrown)
    \/ \E uid \in DOMAIN users, b \in BOOLEAN : SetActive(uid, b)
    \/ \E s \in DOMAIN sockData, tg \in AuthTargets : JoinRoom(s, tg[1], tg[2])
    \/ \E s \in DOMAIN sockData, tg \in AuthTargets : LeaveRoom(s, tg[1], tg[2])
    \/ \E uid \in DOMAIN users : SendToUser(users[uid].id)

SpecAuth == InitAuth /\ [][NextAuth]_vars

---------------------------------------------------------------------------
(* Properties of the authentication                                        *)

\* The five rejections of the specification's taxonomy.
FiveCodes ==
    {"rate_limit_exceeded", "authentication_required", "invalid_token",
     "user_not_found", "account_inactive"}

\* The credential is missing or is not a string (the empty string counts
\* as missing).
CredentialAbsent(cred) == cred.kind # "string" \/ cred.text = ""

\* The source has used up the ten attempts of its running window.
SourceExhausted(ip) ==
    /\ ip \in DOMAIN connectionAttempts
    /\ now <= connectionAttempts[ip].resetAt
    /\ connectionAttempts[ip].count >= 10

PcBefore(c) == IF c \in DOMAIN conns THEN conns[c].pc ELSE "none"

\* The attempt in slot c ends in this step.
Ended(c) ==
    /\ c \in DOMAIN conns' /\ conns'[c].pc = "done"
    /\ c \in DOMAIN conns => conns[c] # conns'[c]

\* What the gates, taken in their order, give the attempt that ends in
\* this step: the verification has just failed, or the lookup has just
\* answered from the user store, or the attempt ended before any await.
GateOutcome(c) ==
    LET uid == conns'[c].decoded.uid
    IN  CASE PcBefore(c) = "verify" -> "invalid_token"
          [] PcBefore(c) = "lookup" ->
                IF uid \notin DOMAIN users THEN "user_not_found"
                ELSE IF ~users[uid].isActive THEN "account_inactive"
                ELSE "ok"
          [] OTHER ->
                IF SourceExhausted(conns'[c].ip) THEN "rate_limit_exceeded"
                ELSE "authentication_required"

\* The continuation was called once when the attempt is over and not at
\* all before; a gate is evaluated only when the gates before it passed.
GatesInOrder(conn) ==
    /\ conn.pc = "verify" =>
          /\ conn.nexts = <<>> /\ conn.invoked = {"verifyIdToken"}
          /\ ~CredentialAbsent(conn.token)
    /\ conn.pc = "lookup" =>
          /\ conn.nexts = <<>>
          /\ conn.invoked = {"verifyIdToken", "findUserByFirebaseUid"}
    /\ conn.pc = "done" =>
          /\ Len(conn.nexts) = 1
          /\ conn.nexts[1] \in {"rate_limit_exceeded", "authentication_required"}
                => conn.invoked = {}
          /\ conn.nexts[1] = "authentication_required" => CredentialAbsent(conn.token)
          /\ conn.nexts[1] = "invalid_token" => conn.invoked = {"verifyIdToken"}
          /\ conn.nexts[1] \notin {"rate_limit_exceeded", "authentication_required",
                                  "invalid_token"}
                => conn.invoked = {"verifyIdToken", "findUserByFirebaseUid"}
          /\ CredentialAbsent(conn.token) => conn.invoked = {}

\* An attempt that does not end before the first await met no failing gate.
PassedEarlyGates(c) ==
    (PcBefore(c) \in {"none", "done"} /\ c \in DOMAIN conns'
        /\ conns'[c].pc = "verify")
    => ~SourceExhausted(conns'[c].ip)

AuthStepOK(c, codes) ==
    /\ c \in DOMAIN conns' => GatesInOrder(conns'[c])
    /\ PassedEarlyGates(c)
    /\ Ended(c) =>
          /\ conns'[c].nexts[1] \in codes \cup {"ok"}
          /\ conns'[c].nexts[1] \in FiveCodes \cup {"ok"}
                => conns'[c].nexts[1] = GateOutcome(c)
          /\ conns'[c].nexts[1] \notin FiveCodes \cup {"ok"}
                => PcBefore(c) = "lookup"

\* C12 as stated: every connection attempt ends by calling the continuation
\* exactly once, with no error or with the rejection of the first failing
\* gate in the order rate limit, credential, verification, user record,
\* active account; no gate after a failing one is evaluated; and every
\* rejection is one of the five codes.
C12_FiveCodes == [][\A c \in Conns : AuthStepOK(c, FiveCodes)]_vars

\* C12 as amended: the same, except that an attempt whose user lookup
\* throws is rejected with authentication_failed, a sixth code.
C12_Gates ==
    [][\A c \in Conns : AuthStepOK(c, FiveCodes \cup {"authentication_failed"})]_vars

\* One attempt was turned away because its lookup threw, and another was
\* turned away by the rate limit without reaching the verification.
C12_Witness ==
    /\ \E c \in DOMAIN conns : conns[c].nexts = <<"authentication_failed">>
    /\ \E c \in DOMAIN conns :
          /\ conns[c].nexts = <<"rate_limit_exceeded">>
          /\ ~CredentialAbsent(conns[c].token)

\* The verified credential carries an admin claim that counts as true.
AdminClaimed(decoded) == decoded.admin \in {"true", "1"}

\* The session of slot c is the one the specification describes for the
\* attempt that ended there.
SessionAsSpecified(c) ==
    LET sd   == sockData[c]
        conn == conns[c]
    IN  /\ conn.nexts = <<"ok">>
        /\ conn.decoded.uid \in DOMAIN users
        /\ sd.odv = users[conn.decoded.uid].id
        /\ sd.userId = users[conn.decoded.uid].id
        /\ sd.firebaseUid = conn.decoded.uid
        /\ "admin" \in sd.roles <=> AdminClaimed(conn.decoded)
        /\ requireSocketAdmin(sockData, c) <=> AdminClaimed(conn.decoded)

\* C13: a session is attached to a connection only when all gates pass;
\* it then carries the looked-up user's id as subject id, the verified
\* external id, an empty room-key set, and the role admin exactly when the
\* credential has a truthy admin claim.  A rejected attempt leaves its
\* connection without a session, so requireSocketAdmin is false for it.  A
\* credential that yields a session while the account is active yields
\* account_inactive and no session once the account is inactive.
C13_Session ==
    [][\A c \in Conns :
         /\ c \in DOMAIN sockData' =>
               /\ c \in DOMAIN conns'
               /\ SessionAsSpecified(c)'
         /\ (c \in DOMAIN conns' /\ conns'[c].nexts # <<"ok">>) =>
               /\ c \notin DOMAIN sockData'
               /\ ~requireSocketAdmin(sockData', c)
         /\ (c \notin DOMAIN sockData /\ c \in DOMAIN sockData') =>
               /\ sockData'[c].rooms = {}
               /\ PcBefore(c) = "lookup"
               /\ ~CredentialAbsent(conns[c].token)
               /\ users[conns[c].decoded.uid].isActive
         /\ (Ended(c) /\ PcBefore(c) = "lookup"
               /\ conns[c].decoded.uid \in DOMAIN users) =>
               IF users[conns[c].decoded.uid].isActive
               THEN conns'[c].nexts[1] \in {"ok", "authentication_failed"}
               ELSE conns'[c].nexts[1] \in {"account_inactive", "authentication_failed"}
      ]_vars

\* The credential tA gave one connection an admin session and, after the
\* account was marked inactive, got another connection account_inactive.
C13_Witness ==
    \E c, d \in DOMAIN conns :
        /\ conns[c].token = Str("tA") /\ conns[d].token = Str("tA")
        /\ c \in DOMAIN sockData /\ requireSocketAdmin(sockData, c)
        /\ conns[d].nexts = <<"account_inactive">>
        /\ d \notin DOMAIN sockData

\* C14: the authenticator is purely a gate: no step of a connection
\* attempt, accepted or rejected at any gate, adds, removes or changes a
\* room or a member set of the registry; a room changes only in a call of
\* a session whose authentication has ended with acceptance.
C14_PureGate ==
    [][/\ conns' # conns => rooms' = rooms
       /\ rooms' # rooms =>
             /\ last'.op \in {"join", "leave"}
             /\ last'.s \in DOMAIN sockData
             /\ conns[last'.s].nexts = <<"ok">>
      ]_vars

\* A room has a member while one attempt has been accepted without its
\* session joining anything and the registry is as the member left it.
C14_Witness ==
    \E c, d \in DOMAIN conns :
        /\ c # d
        /\ c \in DOMAIN sockData
        /\ sockData[c].rooms # {}
        /\ \E k \in DOMAIN rooms : rooms[k].members = {sockData[c].odv}
        /\ conns[d].pc = "done"
        /\ d \in DOMAIN sockData => sockData[d].rooms = {}

---------------------------------------------------------------------------
(* Delivery: broadcastToRoom and sendToUser                                *)

\* No socket: the value of an excludeSocket that is not given.
NoSocket == 0

\* The sockets socket.io holds in the channel `roomId`.
Subscribers(sio, roomId) == {s \in DOMAIN sio : roomId \in sio[s]}

\* rooms.ts:171-177  excludeSocket.to(roomId).emit reaches the channel
\* without excludeSocket; io.to(roomId).emit reaches all of it.
BroadcastRecipients(sio, type, id, excludeSocket) ==
    Subscribers(sio, getRoomId(type, id)) \ {excludeSocket}

\* rooms.ts:163-178
BroadcastToRoom(type, id, excludeSocket) ==
    /\ pending = {}
    /\ last' = [op |-> "broadcast", s |-> excludeSocket, type |-> type, id |-> id,
                ret |-> TRUE,
                emits |-> {<<r, "event">> :
                              r \in BroadcastRecipients(sioRooms, type, id, excludeSocket)}]
    /\ UNCHANGED <<rooms, sockData, sioRooms, pending, rateVars, keyVars, sideVars>>

\* The room the sessions join, leave and broadcast to.
CastTargets == {<<Spot, <<"a">> >>}

NextCast ==
    \/ \E s \in Sessions, tg \in CastTargets : JoinRoom(s, tg[1], tg[2])
    \/ \E s \in Sessions, tg \in CastTargets : LeaveRoom(s, tg[1], tg[2])
    \/ \E s \in Sessions : LeaveAllRooms(s)
    \/ CleanupEmptyRooms
    \/ \E tg \in CastTargets, ex \in Sessions \cup {NoSocket} :
          BroadcastToRoom(tg[1], tg[2], ex)

SpecCast == Init /\ [][NextCast]_vars

\* The sessions whose subject the room lists as a member.
SessionsOfMembers(roomId) ==
    {s \in DOMAIN sockData :
        roomId \in DOMAIN rooms /\ sockData[s].odv \in rooms[roomId].members}

\* C15: broadcastToRoom delivers the event to exactly the connected
\* sessions whose subject is a member of the room at that moment, without
\* the excluded session when one is given: the excluded session never
\* receives it, and no session of a non-member receives it.
C15_Recipients ==
    last.op = "broadcast" =>
        {e[1] : e \in last.emits} = SessionsOfMembers(LastKey(last)) \ {last.s}

---------------------------------------------------------------------------
(* Disconnect: leaveAllRooms interleaved with the other calls              *)
(* The disconnect handler calls leaveAllRooms once for its socket; a       *)
(* socket that has disconnected issues no further call, but the calls it   *)
(* issued before and that are still suspended resume all the same.         *)

\* The keys of the session's set that the loop of leaveAllRooms acts on:
\* a key that parseRoomId rejects is passed over (rooms.ts:153-154).
Leavable(keys) == {k \in keys : ~parseRoomId(k).null}

\* The session has not disconnected.
Online(s) ==
    /\ s \notin closed
    /\ \A t \in pending : ~(t.op = "leaveAll" /\ t.s = s)

\* rooms.ts:152-156 with 124-129  the loop of leaveAllRooms from its head:
\* with no key left to act on the call returns; otherwise it enters
\* leaveRoom for one of the keys and runs it up to `await socket.leave`.
\* `keys` is the session's set at that moment and `others` the other
\* suspended calls.  (The Set is iterated in insertion order, and keys added
\* meanwhile are visited too; the order is left open here.)
LeaveAllLoop(s, keys, others) ==
    IF Leavable(keys) = {}
    THEN /\ pending' = others
         /\ closed' = closed \cup {s}
         /\ last' = [op |-> "leaveAll", s |-> s, type |-> <<>>, id |-> <<>>,
                     ret |-> TRUE, emits |-> {}]
         /\ UNCHANGED sioRooms
    ELSE \E k \in Leavable(keys) :
            LET parsed == parseRoomId(k)
            IN  /\ sioRooms' = [sioRooms EXCEPT ![s] = @ \ {k}]
                /\ pending' = others \cup
                      {[op |-> "leaveAll", s |-> s, type |-> parsed.type,
                        id |-> parsed.id,
                        ref |-> IF k \in DOMAIN rooms THEN "live" ELSE "none"]}
                /\ UNCHANGED <<closed, last>>

\* rooms.ts:147-156  leaveAllRooms from its start, run by the disconnect
\* handler of session s
LeaveAllCall(s) ==
    /\ Online(s)
    /\ LeaveAllLoop(s, sockData[s].rooms, pending)
    /\ UNCHANGED <<rooms, sockData, rateVars, keyVars, conns, users, shadow>>

\* rooms.ts:131-141 with 152-158  the leaveRoom inside leaveAllRooms from
\* its await to its return, and the loop from there
LeaveAllResume(task) ==
    LET roomId == getRoomId(task.type, task.id)
        odv    == sockData[task.s].odv
        keys   == sockData[task.s].rooms \ {roomId}
    IN  /\ task.op = "leaveAll"
        /\ rooms' = IF task.ref = "live"
                    THEN [rooms EXCEPT ![roomId].members = @ \ {odv}]
                    ELSE rooms
        /\ sockData' = [sockData EXCEPT ![task.s].rooms = keys]
        /\ LeaveAllLoop(task.s, keys, pending \ {task})
        /\ UNCHANGED <<rateVars, keyVars, conns, users, shadow>>

\* The room asked for by the sessions that may disconnect.
CloseTargets == {<<Battle, <<"a">> >>}

NextClose ==
    \/ \E s \in Callers, tg \in CloseTargets : Online(s) /\ JoinCall(s, tg[1], tg[2])
    \/ \E task \in pending : JoinReturn(task)
    \/ \E s \in Callers, tg \in CloseTargets : Online(s) /\ LeaveCall(s, tg[1], tg[2])
    \/ \E task \in pending : LeaveReturn(task)
    \/ \E s \in Callers : LeaveAllCall(s)
    \/ \E task \in pending : LeaveAllResume(task)
    \/ CleanupTick

SpecClose == Init /\ [][NextClose]_vars

\* C17: once leaveAllRooms has completed for a disconnecting session, no
\* room lists the session's subject (no other session of that subject is
\* connected) and the session's room-key set is empty, and both stay so,
\* also when a joinRoom of that session was suspended at its await while
\* the disconnect clean-up ran.
C17_CleanDisconnect ==
    \A s \in closed :
        /\ sockData[s].rooms = {}
        /\ \A k \in DOMAIN rooms : sockData[s].odv \notin rooms[k].members

---------------------------------------------------------------------------
(* Leaving                                                                 *)

\* C18: leaveRoom(session, type, id) removes the session's subject from
\* that room's member set and the room key from the session's set; when
\* the subject is no member or the room does not exist no member set
\* changes and the call returns normally; the call never removes a room
\* from the registry, not even the room it empties, and never creates one.
C18_LeaveFrame ==
    [][last'.op = "leave" =>
         LET k   == LastKey(last')
             s   == last'.s
             odv == sockData[s].odv
         IN  /\ last'.ret
             /\ DOMAIN rooms' = DOMAIN rooms
             /\ \A r \in DOMAIN rooms :
                   /\ rooms'[r].type = rooms[r].type /\ rooms'[r].id = rooms[r].id
                   /\ rooms'[r].members =
                         IF r = k THEN rooms[r].members \ {odv} ELSE rooms[r].members
             /\ sockData'[s].rooms = sockData[s].rooms \ {k}
             /\ \A o \in DOMAIN sockData \ {s} : sockData'[o] = sockData[o]
      ]_vars

\* The last call was a leaveRoom and the room it left is in the registry
\* with no member, next to a second room.
C18_Witness ==
    /\ last.op = "leave"
    /\ LastKey(last) \in DOMAIN rooms
    /\ rooms[LastKey(last)].members = {}
    /\ Cardinality(DOMAIN rooms) = 2

\* A key of the session's set whose room the sweep has removed.
StaleKeys(s) == {k \in sockData[s].rooms : k \notin DOMAIN rooms}

\* C19: when the session's set holds a key whose room is no longer in the
\* registry, leaveAllRooms returns normally, removes that key from the
\* set, does not create the room again, and leaves every other room of
\* the set as well.
C19_SelfHeal ==
    [][(last'.op = "leaveAll" /\ StaleKeys(last'.s) # {}) =>
         LET s   == last'.s
             odv == sockData[s].odv
         IN  /\ last'.ret
             /\ StaleKeys(s) \cap sockData'[s].rooms = {}
             /\ DOMAIN rooms' = DOMAIN rooms
             /\ sockData'[s].rooms = {}
             /\ \A k \in sockData[s].rooms \cap DOMAIN rooms' :
                   odv \notin rooms'[k].members
      ]_vars

---------------------------------------------------------------------------
(* The sweeps against a twin that is never swept                           *)
(* Every call is made on the maps of the program and, with the same        *)
(* arguments, on the maps of a twin; cleanupEmptyRooms and                 *)
(* cleanupRateLimits run on the program's maps only, at any point between  *)
(* two calls.  `shadow` holds the twin's stores and connectionAttempts and *)
(* what its last room call and its last checkRateLimit returned.           *)

\* rooms.ts:84-114  joinRoom(socket, type, id) run to completion on the
\* stores st: the stores after the call and the value returned
joinRoom(st, s, type, id) ==
    LET roomId == getRoomId(type, id)
        st1    == [st EXCEPT !.rooms = GetOrCreateRoom(st.rooms, type, id)]
    IN  IF RoomFull(st1.rooms[roomId], type)
        THEN [st |-> st1, ret |-> FALSE, emits |-> {<<s, "room_full">>}]
        ELSE [st |-> Joined(st1, s, roomId), ret |-> TRUE, emits |-> {}]

TwinJoin(s, type, id) ==
    LET r == joinRoom(Stores, s, type, id)
        t == joinRoom(shadow.st, s, type, id)
    IN  /\ SetStores(r.st)
        /\ last' = [op |-> "join", s |-> s, type |-> type, id |-> id,
                    ret |-> r.ret, emits |-> r.emits]
        /\ shadow' = [shadow EXCEPT
                        !.st = t.st,
                        !.last = [op |-> "join", s |-> s, type |-> type, id |-> id,
                                  ret |-> t.ret, emits |-> t.emits]]
        /\ UNCHANGED <<pending, rateVars, keyVars, conns, users, closed>>

TwinLeave(s, type, id) ==
    LET l == [op |-> "leave", s |-> s, type |-> type, id |-> id,
              ret |-> TRUE, emits |-> {}]
    IN  /\ SetStores(Left(Stores, s, type, id))
        /\ last' = l
        /\ shadow' = [shadow EXCEPT !.st = Left(shadow.st, s, type, id), !.last = l]
        /\ UNCHANGED <<pending, rateVars, keyVars, conns, users, closed>>

TwinLeaveAll(s) ==
    LET l == [op |-> "leaveAll", s |-> s, type |-> <<>>, id |-> <<>>,
              ret |-> TRUE, emits |-> {}]
    IN  /\ SetStores(LeftAll(Stores, s, sockData[s].rooms))
        /\ last' = l
        /\ shadow' = [shadow EXCEPT
                        !.st = LeftAll(shadow.st, s, shadow.st.data[s].rooms),
                        !.last = l]
        /\ UNCHANGED <<pending, rateVars, keyVars, conns, users, closed>>

TwinCheckRateLimit(ip) ==
    LET r == checkRateLimit(connectionAttempts, ip, now)
        t == checkRateLimit(shadow.ca, ip, now)
        w == Counted(window, ip, now)
    IN  /\ w[ip].calls <= MaxAttempts
        /\ connectionAttempts' = r.map
        /\ window' = w
        /\ lastAdmit' = [op |-> "admit", ip |-> ip, ret |-> r.ret]
        /\ shadow' = [shadow EXCEPT
                        !.ca = t.map,
                        !.lastAdmit = [op |-> "admit", ip |-> ip, ret |-> t.ret]]
        /\ UNCHANGED <<now, roomVars, keyVars, conns, users, closed>>

\* rooms.ts:260-270  the rate-limit sweep, on the program's map only
TwinCleanupRateLimits ==
    /\ connectionAttempts' = cleanupRateLimits(connectionAttempts, now)
    /\ lastAdmit' = [op |-> "sweep"]
    /\ UNCHANGED <<now, window, roomVars, keyVars, sideVars>>

\* The room of the runs with a twin.
TwinTargets == {<<Battle, <<"a">> >>}

\* The sessions of the runs with a twin: each of a subject of its own,
\* one more than a battle room takes.
TwinSessions == 1..(ROOM_LIMITS[Battle].n + 1)

InitTwin ==
    /\ rooms = <<>>
    /\ sockData = [s \in TwinSessions |-> [odv |-> SubjectId(s), rooms |-> {}]]
    /\ sioRooms = [s \in TwinSessions |-> {}]
    /\ pending = {}
    /\ last = NoCall
    /\ InitRate
    /\ InitKey
    /\ conns = <<>>
    /\ users = <<>>
    /\ closed = {}
    /\ shadow = [st |-> [rooms |-> <<>>,
                         data  |-> [s \in TwinSessions |->
                                      [odv |-> SubjectId(s), rooms |-> {}]],
                         sio   |-> [s \in TwinSessions |-> {}]],
                 ca |-> <<>>, last |-> NoCall, lastAdmit |-> NoCall]

NextTwin ==
    \/ \E s \in TwinSessions, tg \in TwinTargets : TwinJoin(s, tg[1], tg[2])
    \/ \E s \in TwinSessions, tg \in TwinTargets : TwinLeave(s, tg[1], tg[2])
    \/ \E s \in TwinSessions : TwinLeaveAll(s)
    \/ \E ip \in Sources : TwinCheckRateLimit(ip)
    \/ CleanupEmptyRooms
    \/ TwinCleanupRateLimits
    \/ \E d \in {1, CoarseStep} : Tick(d)

SpecTwin == InitTwin /\ [][NextTwin]_vars

\* The member sets of the rooms that have a member.
Occupied(rs) ==
    [k \in {r \in DOMAIN rs : rs[r].members # {}} |-> rs[k].members]

\* C20: for any sequence of checkRateLimit, joinRoom, leaveRoom and
\* leaveAllRooms calls, each run to completion, every call returns the
\* same value and every non-empty room has the same members whether the
\* two sweeps run at arbitrary points in between (one of them or both) or
\* never run.
C20_SweepsOnlyMemory ==
    /\ last.op \in {"join", "leave", "leaveAll"} => last = shadow.last
    /\ lastAdmit.op = "admit" => lastAdmit = shadow.lastAdmit
    /\ Occupied(rooms) = Occupied(shadow.st.rooms)
    /\ sockData = shadow.st.data

\* Both sweeps have removed what the twin still holds (an emptied room,
\* an expired entry), and a leaveRoom made after the room sweep ended the
\* same on both sides.
C20_Witness ==
    /\ last.op = "leave"
    /\ rooms = <<>> /\ shadow.st.rooms # <<>>
    /\ lastAdmit.op = "sweep"
    /\ connectionAttempts = <<>> /\ shadow.ca # <<>>

---------------------------------------------------------------------------
(* The order of one connection's calls                                     *)

\* Session s has no suspended call for the room with key k.
Settled(P, s, k) == \A u \in P : ~(u.s = s /\ getRoomId(u.type, u.id) = k)

\* C21: the calls of one connection take effect in the order they were
\* issued: when a connection has issued joinRoom for a room and afterwards
\* leaveRoom for it, then once both calls have completed the subject is no
\* member of the room and the room's key is not in the session's set,
\* however the awaits of the two calls are timed.  (joinRoom subscribes
\* the socket before its await and leaveRoom unsubscribes it before its
\* own, so a socket that is unsubscribed when its calls for the room have
\* all completed issued leaveRoom last.)
C21_IssueOrder ==
    [][\A t \in pending :
          LET k == getRoomId(t.type, t.id)
          IN  (/\ t.op \in {"join", "leave"}
               /\ Settled(pending', t.s, k)
               /\ k \notin sioRooms'[t.s])
              => /\ k \notin sockData'[t.s].rooms
                 /\ k \in DOMAIN rooms' =>
                       sockData'[t.s].odv \notin rooms'[k].members
      ]_vars

---------------------------------------------------------------------------
(* Independence of the rooms                                               *)

\* C22: rooms are independent: a subject can be a member of several rooms
\* at once, and a joinRoom or leaveRoom on one room, accepted or rejected,
\* leaves the member set of every other room and the room-key set of the
\* sessions of every other subject as they were.
C22_Independent ==
    [][last'.op \in {"join", "leave"} =>
         LET k   == LastKey(last')
             odv == sockData[last'.s].odv
         IN  /\ \A r \in DOMAIN rooms \ {k} :
                   r \in DOMAIN rooms' /\ rooms'[r].members = rooms[r].members
             /\ DOMAIN rooms' \subseteq DOMAIN rooms \cup {k}
             /\ \A o \in DOMAIN sockData :
                   sockData[o].odv # odv => sockData'[o] = sockData[o]
      ]_vars

\* A subject is a member of two rooms, the second of which it has just
\* joined, and another subject is in the first.
C22_Witness ==
    /\ last.op = "join" /\ last.ret
    /\ \E r \in DOMAIN rooms \ {LastKey(last)} :
          /\ sockData[last.s].odv \in rooms[r].members
          /\ sockData[last.s].odv \in rooms[LastKey(last)].members
          /\ Cardinality(rooms[r].members) = 2

---------------------------------------------------------------------------
(* Room types and ids as they arrive at run time                           *)
(* RoomType is a compile-time type: the values a client sends with         *)
(* room:join are strings of any content, and joinRoom takes them as they   *)
(* are.                                                                    *)

\* getRoomStats: the counters start at zero for the four types; the loop over
\* rooms.values() increments byType[room.type] and adds the size of the member
\* set.  For a room whose type is not a key of byType the increment reads
\* undefined, so the entry it writes is NaN.
NaN == "NaN"

Bump(byType, type) ==
    IF type \in RoomType THEN [byType EXCEPT ![type] = @ + 1]
    ELSE IF type \in DOMAIN byType THEN byType
    ELSE byType @@ (type :> NaN)

RECURSIVE StatsLoop(_, _, _)
StatsLoop(rm, keys, acc) ==
    IF keys = {} THEN acc
    ELSE LET k == CHOOSE x \in keys : TRUE
         IN StatsLoop(rm, keys \ {k},
                [byType       |-> Bump(acc.byType, rm[k].type),
                 totalMembers |-> acc.totalMembers + Cardinality(rm[k].members)])

getRoomStats(rm) ==
    LET acc == StatsLoop(rm, DOMAIN rm, [byType |-> [t \in RoomType |-> 0], totalMembers |-> 0])
    IN [totalRooms   |-> Cardinality(DOMAIN rm),
        totalMembers |-> acc.totalMembers,
        byType       |-> acc.byType]

GetRoomStats ==
    /\ pending = {}
    /\ last' = [op |-> "stats", stats |-> getRoomStats(rooms)]
    /\ UNCHANGED <<rooms, sockData, sioRooms, pending, rateVars, keyVars, sideVars>>

\* The type and id values of the calls: a room of the table, a type that
\* is in no table, and the type "user" with the id of subject 2.
WildTargets ==
    {<<Battle, <<"a">> >>, <<<<"bogus">>, <<"a">> >>, <<<<"user">>, <<SubjectId(2)>> >>}

NextWild ==
    \/ \E s \in Callers, tg \in WildTargets : JoinRoom(s, tg[1], tg[2])
    \/ \E s \in Callers, tg \in WildTargets : LeaveRoom(s, tg[1], tg[2])
    \/ \E s \in Callers : LeaveAllRooms(s)
    \/ CleanupEmptyRooms
    \/ \E s \in Callers : SendToUser(sockData[s].odv)
    \/ GetRoomStats

SpecWild == Init /\ [][NextWild]_vars

\* The four room types of the specification.
FourTypes == {<<"battle">>, <<"game">>, <<"spot">>, <<"global">>}

\* C23: a room:join whose room type is not one of battle, game, spot and
\* global is rejected with an error event to the sender and creates no
\* room, adds no member and subscribes the sender to no channel; so every
\* room of the registry has one of the four types, for which a capacity
\* (finite or unbounded) is defined.
C23_TypeChecked ==
    [][/\ (last'.op = "join" /\ last'.type \notin FourTypes) =>
             /\ ~last'.ret
             /\ \E e \in last'.emits : e[1] = last'.s
             /\ rooms' = rooms
             /\ sioRooms' = sioRooms
       /\ \A k \in DOMAIN rooms' :
             rooms'[k].type \in FourTypes /\ rooms'[k].type \in DOMAIN ROOM_LIMITS
      ]_vars

\* The number of (room, member) pairs of the registry.
Memberships(rm) == Cardinality({p \in (DOMAIN rm) \X (UNION {rm[k].members : k \in DOMAIN rm}) :
                                  p[2] \in rm[p[1]].members})

\* C24: getRoomStats changes no registry state; the totalRooms it returns is
\* the number of rooms of the registry, empty rooms not yet swept included,
\* totalMembers is the sum of the sizes of all member sets, and byType has a
\* count for each of the four types, the counts adding up to totalRooms.
C24_Stats ==
    [][last'.op = "stats" =>
         LET st == last'.stats IN
         /\ rooms' = rooms /\ sockData' = sockData /\ sioRooms' = sioRooms
         /\ st.totalRooms = Cardinality(DOMAIN rooms)
         /\ st.totalMembers = Memberships(rooms)
         /\ DOMAIN st.byType = FourTypes
         /\ st.byType[<<"battle">>] + st.byType[<<"game">>]
              + st.byType[<<"spot">>] + st.byType[<<"global">>] = st.totalRooms
      ]_vars

---------------------------------------------------------------------------
(* Rate-limit sweep                                                        *)

\* C25: a cleanupRateLimits run at time t deletes exactly the entries with
\* resetAt < t and leaves every other entry, count and resetAt, as it was;
\* right after a run the map holds only entries whose window has not expired.
C25_RateSweep ==
    [][lastAdmit'.op = "sweep" =>
         /\ DOMAIN connectionAttempts' =
               {i \in DOMAIN connectionAttempts : ~(connectionAttempts[i].resetAt < now)}
         /\ \A i \in DOMAIN connectionAttempts' :
               /\ connectionAttempts'[i] = connectionAttempts[i]
               /\ connectionAttempts'[i].resetAt >= now'
      ]_vars

\* A sweep has deleted the entry of one source and kept the entry of another
\* whose resetAt is the time of the sweep.
C25_Witness ==
    /\ lastAdmit.op = "sweep"
    /\ \E ip \in DOMAIN window : ip \notin DOMAIN connectionAttempts
    /\ \E ip \in DOMAIN connectionAttempts : connectionAttempts[ip].resetAt = now

---------------------------------------------------------------------------
(* Several sessions of one subject                                         *)

\* C26: when two sessions of one subject have both joined a room, leaveRoom
\* or leaveAllRooms of one of them neither removes the subject from the
\* room's member set nor ends the other session's subscription: the subject
\* stays a member while one of its sessions holds the room's key.
C26_SurvivesReconnect ==
    [][last'.op \in {"leave", "leaveAll"} =>
         \A o \in DOMAIN sockData \ {last'.s} :
            \A k \in sockData[o].rooms \cap sockData[last'.s].rooms :
               (/\ sockData[o].odv = sockData[last'.s].odv
                /\ k \in DOMAIN rooms
                /\ sockData[o].odv \in rooms[k].members
                /\ k \in sioRooms[o])
               => /\ k \in sockData'[o].rooms
                  /\ k \in sioRooms'[o]
                  /\ k \in DOMAIN rooms'
                  /\ sockData'[o].odv \in rooms'[k].members
      ]_vars

\* C27: every key that joinRoom adds to a session's room-key set is accepted
\* by parseRoomId, for every type and id joinRoom accepts, the empty id
\* included; so leaveAllRooms skips no key of the session's set.
C27_JoinUndoable ==
    [][/\ (last'.op = "join" /\ last'.ret) =>
             /\ LastKey(last') \in sockData'[last'.s].rooms
             /\ \A k \in sockData'[last'.s].rooms : parseRoomId(k) # Null
       /\ last'.op = "leaveAll" =>
             \A k \in sockData[last'.s].rooms : k \notin sockData'[last'.s].rooms
      ]_vars

---------------------------------------------------------------------------
(* Admission and authentication                                            *)

\* A connection attempt enters the middleware in slot c in this step.
NewAttempt(c) ==
    /\ c \in DOMAIN conns'
    /\ PcBefore(c) \in {"none", "done"}
    /\ c \in DOMAIN conns => conns[c] # conns'[c]

\* The step takes one unit of the window budget of the source: it adds one
\* to the count of the running window, or opens a window with count 1.
Charged(ip) ==
    /\ ip \in DOMAIN connectionAttempts'
    /\ connectionAttempts'[ip] =
          IF ip \in DOMAIN connectionAttempts /\ now <= connectionAttempts[ip].resetAt
          THEN [connectionAttempts[ip] EXCEPT !.count = @ + 1]
          ELSE [count |-> 1, resetAt |-> now + 60000]

\* C28: every connection attempt the rate limiter admits takes one unit of
\* the window budget of its source, whatever its credential and whatever the
\* later gates answer; and an attempt of a source that has used up the ten
\* units of its window is rejected with rate_limit_exceeded before any other
\* gate, even when it carries a valid credential of an active user.
C28_ChargedFirst ==
    [][\A c \in Conns :
          NewAttempt(c) =>
             IF SourceExhausted(conns'[c].ip)
             THEN /\ conns'[c].nexts = <<"rate_limit_exceeded">>
                  /\ conns'[c].invoked = {}
                  /\ connectionAttempts' = connectionAttempts
             ELSE /\ conns'[c].nexts # <<"rate_limit_exceeded">>
                  /\ Charged(conns'[c].ip)
      ]_vars

\* No attempt has ever passed authentication, none is in progress, the source
\* has used its ten units, and its latest attempt, with the valid credential
\* of an active user, was rejected with rate_limit_exceeded.
C28_Witness ==
    /\ sockData = <<>>
    /\ DOMAIN conns = Conns
    /\ \A c \in Conns : conns[c].pc = "done"
    /\ \E c \in Conns :
          /\ conns[c].nexts = <<"rate_limit_exceeded">>
          /\ conns[c].token = Str("tA")
          /\ users[IdTokens["tA"].uid].isActive
          /\ connectionAttempts[conns[c].ip].count = 10
    /\ \E c \in Conns :
          conns[c].nexts[1] \in {"authentication_required", "invalid_token",
                                 "user_not_found", "account_inactive"}

---------------------------------------------------------------------------
(* Independence of the sources                                             *)

\* What a source's own entry e (or no entry) and the time t alone say about
\* an attempt: whether it is admitted, and the entry it leaves.
NoEntry == [count |-> 0, resetAt |-> 0]

OwnEntry(ca, ip) == IF ip \in DOMAIN ca THEN ca[ip] ELSE NoEntry

OwnVerdict(e, t) ==
    IF e = NoEntry \/ t > e.resetAt
    THEN [ret |-> TRUE, entry |-> [count |-> 1, resetAt |-> t + 60000]]
    ELSE IF e.count >= 10
    THEN [ret |-> FALSE, entry |-> e]
    ELSE [ret |-> TRUE, entry |-> [e EXCEPT !.count = @ + 1]]

\* C29: checkRateLimit(a) reads and writes the entry of source a only: its
\* result and the entry it leaves for a are determined by a's entry and the
\* time, whatever entries other sources have, and it changes the count and
\* resetAt of no other source; so what a is answered does not depend on the
\* attempts of any other source.
C29_Independent ==
    [][lastAdmit'.op = "admit" =>
         LET a == lastAdmit'.ip
             v == OwnVerdict(OwnEntry(connectionAttempts, a), now)
         IN  /\ lastAdmit'.ret = v.ret
             /\ OwnEntry(connectionAttempts', a) = v.entry
             /\ \A b \in Ips \ {a} :
                   OwnEntry(connectionAttempts', b) = OwnEntry(connectionAttempts, b)
      ]_vars

\* One source is denied in its window while another source, whose window is
\* still running with fewer attempts, has just been admitted.
C29_Witness ==
    /\ lastAdmit.op = "admit" /\ lastAdmit.ret
    /\ \E b \in DOMAIN connectionAttempts \ {lastAdmit.ip} :
          /\ connectionAttempts[b].count = 10
          /\ window[b].calls > 10
          /\ now <= connectionAttempts[b].resetAt
    /\ connectionAttempts[lastAdmit.ip].count \in 2..9

---------------------------------------------------------------------------
(* Personal channels                                                       *)

\* The sessions authenticated as a subject.
SessionsOf(odv) == {s \in DOMAIN sockData : sockData[s].odv = odv}

\* C30: an event sent with sendToUser to a subject is delivered to no session
\* of another subject; and no joinRoom call, whatever type and id it is
\* given at run time, subscribes a session to the channel user:<id> that
\* sendToUser uses for another subject.
C30_PersonalIsolated ==
    [][/\ last'.op = "send" =>
             \A e \in last'.emits : e[1] \in SessionsOf(last'.id[1])
       /\ last'.op = "join" =>
             \A odv \in {sockData[o].odv : o \in DOMAIN sockData} \ {sockData[last'.s].odv} :
                <<"user", COLON, odv>> \notin sioRooms'[last'.s]
      ]_vars

=============================================================================
